---------------------------- MODULE Spec2Model ----------------------------
(***************************************************************************)
(* Model of the clothing recommender of src/app.py (and of the encoder of  *)
(* src/train_model.py).                                                    *)
(*                                                                         *)
(* A Python str is a tuple of Unicode code points, so that formatting,     *)
(* percent-encoding and str.strip() are computed character by character.   *)
(* Python's None is the tuple None below, which is no str.                 *)
(***************************************************************************)
EXTENDS Integers, Sequences, FiniteSets, TLC

VARIABLES
    client,   \* module global `client`: TRUE when genai.Client(...) succeeded, FALSE when it is None
    models,   \* RECOMMENDATION_MODELS: loaded category -> classifier artifact
    op,       \* the function the call is of
    args,     \* its arguments
    pc,       \* "ready" before the call, "done" once it returned
    env,      \* what the LLM service does when the call reaches it
    ret,      \* what the call returned
    calls,    \* number of calls the function made to its collaborator (LLM service, classifier)
    session,  \* st.session_state: the keys present and their values
    widgets,  \* the values the browser holds for the keyed widgets
    shown,    \* what the last script run rendered
    steps     \* the pipeline steps the last script run went through, in order

appvars == <<session, widgets, shown, steps>>

vars == <<client, models, op, args, pc, env, ret, calls, session, widgets, shown, steps>>

\* Python's None (no code point is negative, so no str equals it)
None == <<-1>>

EmptyStr == <<>>

\* Python truthiness of a value that is a str or None
Truthy(x) == x /= None /\ x /= EmptyStr

\* dict.get(key, default)
DictGet(d, k, default) == IF k \in DOMAIN d THEN d[k] ELSE default

\* Python str literals used as inputs and in the properties, as code points.
s_top ==
    <<116, 111, 112>>  \* "top"
s_bottom ==
    <<98, 111, 116, 116, 111, 109>>  \* "bottom"
s_outer ==
    <<111, 117, 116, 101, 114>>  \* "outer"
s_shoes ==
    <<115, 104, 111, 101, 115>>  \* "shoes"
s_hoodie ==
    <<104, 111, 111, 100, 105, 101>>  \* "hoodie"
s_denim ==
    <<100, 101, 110, 105, 109>>  \* "denim"
s_coat ==
    <<99, 111, 97, 116>>  \* "coat"
s_sneakers ==
    <<115, 110, 101, 97, 107, 101, 114, 115>>  \* "sneakers"
s_male ==
    <<109, 97, 108, 101>>  \* "male"
s_female ==
    <<102, 101, 109, 97, 108, 101>>  \* "female"
s_unisex ==
    <<117, 110, 105, 115, 101, 120>>  \* "unisex"
s_casual ==
    <<99, 97, 115, 117, 97, 108>>  \* "casual"
s_street ==
    <<115, 116, 114, 101, 101, 116>>  \* "street"
s_classic ==
    <<99, 108, 97, 115, 115, 105, 99>>  \* "classic"
s_sporty ==
    <<115, 112, 111, 114, 116, 121>>  \* "sporty"
s_black ==
    <<98, 108, 97, 99, 107>>  \* "black"
s_red ==
    <<114, 101, 100>>  \* "red"
s_white ==
    <<119, 104, 105, 116, 101>>  \* "white"
s_burgundy ==
    <<98, 117, 114, 103, 117, 110, 100, 121>>  \* "burgundy"
s_under_50 ==
    <<117, 110, 100, 101, 114, 95, 53, 48>>  \* "under_50"
s_t50_100 ==
    <<53, 48, 95, 49, 48, 48>>  \* "50_100"
s_t100_200 ==
    <<49, 48, 48, 95, 50, 48, 48>>  \* "100_200"
s_t200_300 ==
    <<50, 48, 48, 95, 51, 48, 48>>  \* "200_300"
s_over_300 ==
    <<111, 118, 101, 114, 95, 51, 48, 48>>  \* "over_300"
s_cheap ==
    <<99, 104, 101, 97, 112>>  \* "cheap"
s_street_padded ==
    <<32, 115, 116, 114, 101, 101, 116, 32>>  \* " street " (style padded with blanks)
s_blank ==
    <<32>>  \* " " (one blank)
p_gender ==
    <<103, 101, 110, 100, 101, 114>>  \* "gender"
p_gf ==
    <<103, 102>>  \* "gf"
p_price ==
    <<112, 114, 105, 99, 101>>  \* "price"
p_minPrice ==
    <<109, 105, 110, 80, 114, 105, 99, 101>>  \* "minPrice"
p_maxPrice ==
    <<109, 97, 120, 80, 114, 105, 99, 101>>  \* "maxPrice"
p_color ==
    <<99, 111, 108, 111, 114>>  \* "color"
p_category ==
    <<99, 97, 116, 101, 103, 111, 114, 121>>  \* "category"
p_keyword ==
    <<107, 101, 121, 119, 111, 114, 100>>  \* "keyword"
p_style ==
    <<115, 116, 121, 108, 101>>  \* "style"
base_url ==
    <<104, 116, 116, 112, 115, 58, 47, 47, 119, 119, 119, 46, 109, 117, 115, 105, 110, 115, 97, 46, 99, 111, 109, 47, 115, 101, 97, 114, 99, 104, 47, 103, 111, 111, 100, 115>>  \* "https://www.musinsa.com/search/goods"
PredictFailed ==
    <<50696, 52769, 32, 49892, 54056>>  \* the "prediction failed" sentinel
ModelMissing ==
    <<50696, 52769, 32, 48520, 44032, 32, 40, 47784, 45944, 32, 45572, 46973, 41>>  \* the "model missing" sentinel
kw_hoodie_black_casual ==
    <<54980, 46300, 32, 54000, 49492, 52768, 32, 48660, 47001, 32, 99, 97, 115, 117, 97, 108>>  \* the keyword of the end-to-end example
s_F ==
    <<70>>  \* "F"
s_M ==
    <<77>>  \* "M"
s_BLACK ==
    <<66, 76, 65, 67, 75>>  \* "BLACK"
r_0_50000 ==
    <<48, 126, 53, 48, 48, 48, 48>>  \* "0~50000"
r_50000_99999 ==
    <<53, 48, 48, 48, 48, 126, 57, 57, 57, 57, 57>>  \* "50000~99999"
r_50000_100000 ==
    <<53, 48, 48, 48, 48, 126, 49, 48, 48, 48, 48, 48>>  \* "50000~100000"

\* MUSINSA_CATEGORY_CODES: category -> code of the `category` parameter
MUSINSA_CATEGORY_CODES ==
       (<<116, 111, 112>> :>   \* "top": "001"
          <<48, 48, 49>>)
    @@ (<<98, 111, 116, 116, 111, 109>> :>   \* "bottom": "002"
          <<48, 48, 50>>)
    @@ (<<111, 117, 116, 101, 114>> :>   \* "outer": "003"
          <<48, 48, 51>>)

\* MUSINSA_COLOR_CODES: colour -> comma-joined colour filter codes
MUSINSA_COLOR_CODES ==
       (<<114, 101, 100>> :>   \* "red": "RED,DEEPRED,BRICK,ORANGE"
          <<82, 69, 68, 44, 68, 69, 69, 80, 82, 69, 68, 44, 66, 82, 73, 67, 75, 44, 79, 82, 65, 78, 71, 69>>)
    @@ (<<98, 108, 117, 101>> :>   \* "blue": "BLUE,SKYBLUE,NAVY,DEEPBLUE"
          <<66, 76, 85, 69, 44, 83, 75, 89, 66, 76, 85, 69, 44, 78, 65, 86, 89, 44, 68, 69, 69, 80, 66, 76, 85, 69>>)
    @@ (<<98, 108, 97, 99, 107>> :>   \* "black": "BLACK"
          <<66, 76, 65, 67, 75>>)
    @@ (<<119, 104, 105, 116, 101>> :>   \* "white": "WHITE,IVORY"
          <<87, 72, 73, 84, 69, 44, 73, 86, 79, 82, 89>>)
    @@ (<<103, 114, 97, 121>> :>   \* "gray": "GRAY,CHARCOAL"
          <<71, 82, 65, 89, 44, 67, 72, 65, 82, 67, 79, 65, 76>>)
    @@ (<<98, 114, 111, 119, 110>> :>   \* "brown": "BROWN,BEIGE,KHAKI"
          <<66, 82, 79, 87, 78, 44, 66, 69, 73, 71, 69, 44, 75, 72, 65, 75, 73>>)
    @@ (<<103, 114, 101, 101, 110>> :>   \* "green": "GREEN,LIGHTGREEN,DEEPGREEN"
          <<71, 82, 69, 69, 78, 44, 76, 73, 71, 72, 84, 71, 82, 69, 69, 78, 44, 68, 69, 69, 80, 71, 82, 69, 69, 78>>)
    @@ (<<112, 105, 110, 107>> :>   \* "pink": "PINK,CORAL"
          <<80, 73, 78, 75, 44, 67, 79, 82, 65, 76>>)

\* MUSINSA_FILTER_MAPPING["item_kr"]: item label -> Korean item name
ITEM_KR ==
       (<<116, 115, 104, 105, 114, 116>> :>   \* "tshirt": "티셔츠"
          <<54000, 49492, 52768>>)
    @@ (<<108, 111, 110, 103, 95, 115, 108, 101, 101, 118, 101>> :>   \* "long_sleeve": "긴팔 티셔츠"
          <<44596, 54036, 32, 54000, 49492, 52768>>)
    @@ (<<104, 111, 111, 100, 105, 101>> :>   \* "hoodie": "후드 티셔츠"
          <<54980, 46300, 32, 54000, 49492, 52768>>)
    @@ (<<115, 119, 101, 97, 116, 115, 104, 105, 114, 116>> :>   \* "sweatshirt": "맨투맨"
          <<47592, 53804, 47592>>)
    @@ (<<115, 104, 105, 114, 116>> :>   \* "shirt": "셔츠"
          <<49492, 52768>>)
    @@ (<<98, 108, 111, 117, 115, 101>> :>   \* "blouse": "블라우스"
          <<48660, 46972, 50864, 49828>>)
    @@ (<<99, 114, 111, 112, 95, 116, 111, 112>> :>   \* "crop_top": "크롭탑"
          <<53356, 47213, 53457>>)
    @@ (<<116, 97, 110, 107, 95, 116, 111, 112>> :>   \* "tank_top": "나시"
          <<45208, 49884>>)
    @@ (<<116, 114, 97, 105, 110, 105, 110, 103, 95, 116, 111, 112>> :>   \* "training_top": "트레이닝 상의"
          <<53944, 47112, 51060, 45789, 32, 49345, 51032>>)
    @@ (<<100, 101, 110, 105, 109>> :>   \* "denim": "데님"
          <<45936, 45784>>)
    @@ (<<115, 108, 97, 99, 107, 115>> :>   \* "slacks": "슬랙스"
          <<49836, 47001, 49828>>)
    @@ (<<99, 97, 114, 103, 111, 95, 112, 97, 110, 116, 115>> :>   \* "cargo_pants": "카고 팬츠"
          <<52852, 44256, 32, 54060, 52768>>)
    @@ (<<116, 114, 97, 105, 110, 105, 110, 103, 95, 112, 97, 110, 116, 115>> :>   \* "training_pants": "트레이닝 팬츠"
          <<53944, 47112, 51060, 45789, 32, 54060, 52768>>)
    @@ (<<115, 107, 105, 114, 116>> :>   \* "skirt": "스커트"
          <<49828, 52964, 53944>>)
    @@ (<<115, 104, 111, 114, 116, 115>> :>   \* "shorts": "반바지"
          <<48152, 48148, 51648>>)
    @@ (<<108, 101, 103, 103, 105, 110, 103, 115>> :>   \* "leggings": "레깅스"
          <<47112, 44613, 49828>>)
    @@ (<<106, 97, 99, 107, 101, 116>> :>   \* "jacket": "재킷"
          <<51116, 53431>>)
    @@ (<<112, 97, 100, 100, 105, 110, 103>> :>   \* "padding": "패딩"
          <<54056, 46377>>)
    @@ (<<98, 108, 97, 122, 101, 114>> :>   \* "blazer": "블레이저"
          <<48660, 47112, 51060, 51200>>)
    @@ (<<99, 111, 97, 116>> :>   \* "coat": "코트"
          <<53076, 53944>>)
    @@ (<<99, 97, 114, 100, 105, 103, 97, 110>> :>   \* "cardigan": "가디건"
          <<44032, 46356, 44148>>)
    @@ (<<122, 105, 112, 117, 112, 95, 104, 111, 111, 100, 105, 101>> :>   \* "zipup_hoodie": "집업 후드"
          <<51665, 50629, 32, 54980, 46300>>)
    @@ (<<119, 105, 110, 100, 98, 114, 101, 97, 107, 101, 114>> :>   \* "windbreaker": "바람막이"
          <<48148, 46988, 47561, 51060>>)

\* MUSINSA_FILTER_MAPPING["gender_code"]
GENDER_CODE ==
       (<<109, 97, 108, 101>> :>   \* "male": "M"
          <<77>>)
    @@ (<<102, 101, 109, 97, 108, 101>> :>   \* "female": "F"
          <<70>>)

\* MUSINSA_FILTER_MAPPING["color_kr"]: colour -> Korean colour name
COLOR_KR ==
       (<<98, 108, 97, 99, 107>> :>   \* "black": "블랙"
          <<48660, 47001>>)
    @@ (<<119, 104, 105, 116, 101>> :>   \* "white": "화이트"
          <<54868, 51060, 53944>>)
    @@ (<<98, 108, 117, 101>> :>   \* "blue": "블루"
          <<48660, 47336>>)
    @@ (<<103, 114, 97, 121>> :>   \* "gray": "그레이"
          <<44536, 47112, 51060>>)
    @@ (<<114, 101, 100>> :>   \* "red": "레드"
          <<47112, 46300>>)
    @@ (<<98, 114, 111, 119, 110>> :>   \* "brown": "브라운"
          <<48652, 46972, 50868>>)
    @@ (<<103, 114, 101, 101, 110>> :>   \* "green": "그린"
          <<44536, 47536>>)
    @@ (<<112, 105, 110, 107>> :>   \* "pink": "핑크"
          <<54609, 53356>>)

\* Texts the LLM service may answer the extraction request with
resp_full ==   \* {"gender": "female", "color": "black", "style": "casual", "price": "50_100"}    (json.loads: {'gender': 'female', 'color': 'black', 'style': 'casual', 'price': '50_100'})
    <<123, 34, 103, 101, 110, 100, 101, 114, 34, 58, 32, 34, 102, 101, 109, 97, 108, 101, 34, 44, 32, 34, 99, 111, 108, 111, 114, 34, 58, 32, 34, 98, 108, 97, 99, 107, 34, 44, 32, 34, 115, 116, 121, 108, 101, 34, 58, 32, 34, 99, 97, 115, 117, 97, 108, 34, 44, 32, 34, 112, 114, 105, 99, 101, 34, 58, 32, 34, 53, 48, 95, 49, 48, 48, 34, 125>>
resp_unseen_color ==   \* {"gender":"female","color":"burgundy","style":"casual","price":"100_200"}    (json.loads: {'gender': 'female', 'color': 'burgundy', 'style': 'casual', 'price': '100_200'})
    <<123, 34, 103, 101, 110, 100, 101, 114, 34, 58, 34, 102, 101, 109, 97, 108, 101, 34, 44, 34, 99, 111, 108, 111, 114, 34, 58, 34, 98, 117, 114, 103, 117, 110, 100, 121, 34, 44, 34, 115, 116, 121, 108, 101, 34, 58, 34, 99, 97, 115, 117, 97, 108, 34, 44, 34, 112, 114, 105, 99, 101, 34, 58, 34, 49, 48, 48, 95, 50, 48, 48, 34, 125>>
resp_upper ==   \* {"gender": "Female", "color": "Black", "style": "casual", "price": "under_50"}    (json.loads: {'gender': 'Female', 'color': 'Black', 'style': 'casual', 'price': 'under_50'})
    <<123, 34, 103, 101, 110, 100, 101, 114, 34, 58, 32, 34, 70, 101, 109, 97, 108, 101, 34, 44, 32, 34, 99, 111, 108, 111, 114, 34, 58, 32, 34, 66, 108, 97, 99, 107, 34, 44, 32, 34, 115, 116, 121, 108, 101, 34, 58, 32, 34, 99, 97, 115, 117, 97, 108, 34, 44, 32, 34, 112, 114, 105, 99, 101, 34, 58, 32, 34, 117, 110, 100, 101, 114, 95, 53, 48, 34, 125>>
resp_partial ==   \* {"gender": "male", "color": "blue"}    (json.loads: {'gender': 'male', 'color': 'blue'})
    <<123, 34, 103, 101, 110, 100, 101, 114, 34, 58, 32, 34, 109, 97, 108, 101, 34, 44, 32, 34, 99, 111, 108, 111, 114, 34, 58, 32, 34, 98, 108, 117, 101, 34, 125>>
resp_null_field ==   \* {"gender": null, "color": "black", "style": "casual", "price": "under_50"}    (json.loads: {'gender': None, 'color': 'black', 'style': 'casual', 'price': 'under_50'})
    <<123, 34, 103, 101, 110, 100, 101, 114, 34, 58, 32, 110, 117, 108, 108, 44, 32, 34, 99, 111, 108, 111, 114, 34, 58, 32, 34, 98, 108, 97, 99, 107, 34, 44, 32, 34, 115, 116, 121, 108, 101, 34, 58, 32, 34, 99, 97, 115, 117, 97, 108, 34, 44, 32, 34, 112, 114, 105, 99, 101, 34, 58, 32, 34, 117, 110, 100, 101, 114, 95, 53, 48, 34, 125>>
resp_truncated ==   \* {"gender": "female", "color":     (json.loads: raises JSONDecodeError)
    <<123, 34, 103, 101, 110, 100, 101, 114, 34, 58, 32, 34, 102, 101, 109, 97, 108, 101, 34, 44, 32, 34, 99, 111, 108, 111, 114, 34, 58, 32>>
resp_prose ==   \* Sorry, I cannot help.    (json.loads: raises JSONDecodeError)
    <<83, 111, 114, 114, 121, 44, 32, 73, 32, 99, 97, 110, 110, 111, 116, 32, 104, 101, 108, 112, 46>>
resp_null ==   \* null    (json.loads: None)
    <<110, 117, 108, 108>>
resp_list ==   \* []    (json.loads: [])
    <<91, 93>>
resp_empty ==   \*     (json.loads: raises JSONDecodeError)
    <<>>

\* Texts the LLM service may answer the refinement request with
ref_clean ==   \* 'nike air force'    (.strip().replace('\n', ' '): 'nike air force')
    <<110, 105, 107, 101, 32, 97, 105, 114, 32, 102, 111, 114, 99, 101>>
ref_padded ==   \* '  nike\nair force \n'    (.strip().replace('\n', ' '): 'nike air force')
    <<32, 32, 110, 105, 107, 101, 10, 97, 105, 114, 32, 102, 111, 114, 99, 101, 32, 10>>
ref_crlf ==   \* 'nike\r\nair'    (.strip().replace('\n', ' '): 'nike\r air')
    <<110, 105, 107, 101, 13, 10, 97, 105, 114>>
ref_blank ==   \* ' \n '    (.strip().replace('\n', ' '): '')
    <<32, 10, 32>>
ref_empty ==   \* ''    (.strip().replace('\n', ' '): '')
    <<>>

\* Product names the user may type
name_set ==   \* '윈드 브레이커 점퍼 & 카고 스커트 세트'
    <<50952, 46300, 32, 48652, 47112, 51060, 52964, 32, 51216, 54140, 32, 38, 32, 52852, 44256, 32, 49828, 52964, 53944, 32, 49464, 53944>>
name_padded ==   \* ' nike  air\n'
    <<32, 110, 105, 107, 101, 32, 32, 97, 105, 114, 10>>

\* attribute values in other spellings
s_Female ==   \* 'Female'
    <<70, 101, 109, 97, 108, 101>>
s_Black ==   \* 'Black'
    <<66, 108, 97, 99, 107>>
s_blue ==   \* 'blue'
    <<98, 108, 117, 101>>
s_price_key ==   \* 'price'
    <<112, 114, 105, 99, 101>>

\* the request text the session starts with
text_request ==   \* '테스트: 여자 캐주얼 버건디 17만원 '
    <<53580, 49828, 53944, 58, 32, 50668, 51088, 32, 52880, 51452, 50620, 32, 48260, 44148, 46356, 32, 49, 55, 47564, 50896, 32>>

\* generate_naver_shopping_link: base URL and the fixed parts of the query
NAVER_SHOPPING_BASE_URL ==   \* "https://search.shopping.naver.com/search/all"
    <<104, 116, 116, 112, 115, 58, 47, 47, 115, 101, 97, 114, 99, 104, 46, 115, 104, 111, 112, 112, 105, 110, 103, 46, 110, 97, 118, 101, 114, 46, 99, 111, 109, 47, 115, 101, 97, 114, 99, 104, 47, 97, 108, 108>>
naver_query_head ==   \* "?query="
    <<63, 113, 117, 101, 114, 121, 61>>
naver_query_tail ==   \* "&cat_id=&frm=NVSHATC"
    <<38, 99, 97, 116, 95, 105, 100, 61, 38, 102, 114, 109, 61, 78, 86, 83, 72, 65, 84, 67>>

\* the labels of the `top` column (the first row of item_kr)
TOP_CLASSES ==
    <<<<116, 115, 104, 105, 114, 116>>,   \* "tshirt"
      <<108, 111, 110, 103, 95, 115, 108, 101, 101, 118, 101>>,   \* "long_sleeve"
      <<104, 111, 111, 100, 105, 101>>,   \* "hoodie"
      <<115, 119, 101, 97, 116, 115, 104, 105, 114, 116>>,   \* "sweatshirt"
      <<115, 104, 105, 114, 116>>,   \* "shirt"
      <<98, 108, 111, 117, 115, 101>>,   \* "blouse"
      <<99, 114, 111, 112, 95, 116, 111, 112>>,   \* "crop_top"
      <<116, 97, 110, 107, 95, 116, 111, 112>>,   \* "tank_top"
      <<116, 114, 97, 105, 110, 105, 110, 103, 95, 116, 111, 112>> >>   \* "training_top"

\* the labels of the `bottom` column (the second row of item_kr)
BOTTOM_CLASSES ==
    <<<<100, 101, 110, 105, 109>>,   \* "denim"
      <<115, 108, 97, 99, 107, 115>>,   \* "slacks"
      <<99, 97, 114, 103, 111, 95, 112, 97, 110, 116, 115>>,   \* "cargo_pants"
      <<116, 114, 97, 105, 110, 105, 110, 103, 95, 112, 97, 110, 116, 115>>,   \* "training_pants"
      <<115, 107, 105, 114, 116>>,   \* "skirt"
      <<115, 104, 111, 114, 116, 115>>,   \* "shorts"
      <<108, 101, 103, 103, 105, 110, 103, 115>> >>   \* "leggings"

\* the labels of the `outer` column (the third row of item_kr)
OUTER_CLASSES ==
    <<<<106, 97, 99, 107, 101, 116>>,   \* "jacket"
      <<112, 97, 100, 100, 105, 110, 103>>,   \* "padding"
      <<98, 108, 97, 122, 101, 114>>,   \* "blazer"
      <<99, 111, 97, 116>>,   \* "coat"
      <<99, 97, 114, 100, 105, 103, 97, 110>>,   \* "cardigan"
      <<122, 105, 112, 117, 112, 95, 104, 111, 111, 100, 105, 101>>,   \* "zipup_hoodie"
      <<119, 105, 110, 100, 98, 114, 101, 97, 107, 101, 114>> >>   \* "windbreaker"

\* the categories OneHotEncoder learnt for `gender`
GENDER_VOCAB ==
    <<<<102, 101, 109, 97, 108, 101>>,   \* "female"
      <<109, 97, 108, 101>> >>   \* "male"

\* the categories OneHotEncoder learnt for `style`
STYLE_VOCAB ==
    <<<<99, 97, 115, 117, 97, 108>>,   \* "casual"
      <<99, 108, 97, 115, 115, 105, 99>>,   \* "classic"
      <<115, 112, 111, 114, 116, 121>>,   \* "sporty"
      <<115, 116, 114, 101, 101, 116>> >>   \* "street"

\* the categories OneHotEncoder learnt for `color`
COLOR_VOCAB ==
    <<<<98, 108, 97, 99, 107>>,   \* "black"
      <<98, 108, 117, 101>>,   \* "blue"
      <<98, 114, 111, 119, 110>>,   \* "brown"
      <<103, 114, 97, 121>>,   \* "gray"
      <<103, 114, 101, 101, 110>>,   \* "green"
      <<112, 105, 110, 107>>,   \* "pink"
      <<114, 101, 100>>,   \* "red"
      <<119, 104, 105, 116, 101>> >>   \* "white"

\* the categories OneHotEncoder learnt for `price`
PRICE_VOCAB ==
    <<<<49, 48, 48, 95, 50, 48, 48>>,   \* "100_200"
      <<50, 48, 48, 95, 51, 48, 48>>,   \* "200_300"
      <<53, 48, 95, 49, 48, 48>>,   \* "50_100"
      <<111, 118, 101, 114, 95, 51, 48, 48>>,   \* "over_300"
      <<117, 110, 100, 101, 114, 95, 53, 48>> >>   \* "under_50"

----------------------------------------------------------------------------
\* str(n) for an int n >= 0, as f"{min_b}~{max_b}" and urlencode's str(v) compute it
RECURSIVE IntToStr(_)
IntToStr(n) ==
    IF n < 10 THEN <<48 + n>> ELSE IntToStr(n \div 10) \o <<48 + (n % 10)>>

\* MIN_MUSINSA_PRICE of get_price_min_max
MIN_MUSINSA_PRICE == 7200

\* mutant of PRICE_BOUNDARIES: every upper bound is the next tier's lower bound
PRICE_BOUNDARIES_HalfOpen ==
       (s_under_50 :> <<0, 50000>>)
    @@ (s_t50_100 :> <<50000, 100000>>)
    @@ (s_t100_200 :> <<100000, 200000>>)
    @@ (s_t200_300 :> <<200000, 300000>>)
    @@ (s_over_300 :> <<300000, 10000000>>)

\* PRICE_BOUNDARIES of get_price_min_max: tier -> (min_b, max_b)
PRICE_BOUNDARIES ==
       (s_under_50 :> <<0, 50000>>)
    @@ (s_t50_100 :> <<50000, 99999>>)
    @@ (s_t100_200 :> <<100000, 199999>>)
    @@ (s_t200_300 :> <<200000, 299999>>)
    @@ (s_over_300 :> <<300000, 10000000>>)

\* mutant of PriceKeyUsed: an unusable key falls back to the last tier of the table
PriceKeyUsed_LastTier(price_key) ==
    IF ~Truthy(price_key) \/ price_key \notin DOMAIN PRICE_BOUNDARIES
    THEN s_over_300 ELSE price_key

\* the tier looked up: `if not price_key or price_key not in PRICE_BOUNDARIES`
PriceKeyUsed(price_key) ==
    IF ~Truthy(price_key) \/ price_key \notin DOMAIN PRICE_BOUNDARIES
    THEN s_under_50 ELSE price_key

\* mutant of FinalMin: the floor is never substituted
FinalMin_NoFloor(min_b) == min_b

\* final_min = min_b if min_b > 0 else MIN_MUSINSA_PRICE
FinalMin(min_b) == IF min_b > 0 THEN min_b ELSE MIN_MUSINSA_PRICE

\* get_price_min_max(price_key) -> (price_param, final_min, final_max)
get_price_min_max(price_key) ==
    LET b == PRICE_BOUNDARIES[PriceKeyUsed(price_key)]
        min_b == b[1]
        max_b == b[2]
    IN  [price_param |-> IntToStr(min_b) \o <<126>> \o IntToStr(max_b),
         final_min |-> FinalMin(min_b),
         final_max |-> max_b]

----------------------------------------------------------------------------
\* urllib.parse.quote / quote_plus / urlencode

\* str.encode("utf-8") of one code point
Utf8(c) ==
    IF c < 128 THEN <<c>>
    ELSE IF c < 2048 THEN <<192 + (c \div 64), 128 + (c % 64)>>
    ELSE IF c < 65536
         THEN <<224 + (c \div 4096), 128 + ((c \div 64) % 64), 128 + (c % 64)>>
    ELSE <<240 + (c \div 262144), 128 + ((c \div 4096) % 64),
           128 + ((c \div 64) % 64), 128 + (c % 64)>>

\* urllib's _ALWAYS_SAFE: letters, digits and "_.-~"
AlwaysSafe == (48..57) \cup (65..90) \cup (97..122) \cup {95, 46, 45, 126}

HexDigit(n) == IF n < 10 THEN 48 + n ELSE 55 + n

\* one byte as quote() writes it: itself when safe, "%XX" (upper case) otherwise
QuoteByte(b, safe) ==
    IF b \in AlwaysSafe \cup safe THEN <<b>>
    ELSE <<37, HexDigit(b \div 16), HexDigit(b % 16)>>

RECURSIVE QuoteBytes(_, _, _)
QuoteBytes(bs, i, safe) ==
    IF i > Len(bs) THEN <<>>
    ELSE QuoteByte(bs[i], safe) \o QuoteBytes(bs, i + 1, safe)

RECURSIVE QuoteFrom(_, _, _)
QuoteFrom(s, i, safe) ==
    IF i > Len(s) THEN <<>>
    ELSE QuoteBytes(Utf8(s[i]), 1, safe) \o QuoteFrom(s, i + 1, safe)

\* urllib.parse.quote(s, safe)
quote(s, safe) == QuoteFrom(s, 1, safe)

\* str.replace(old, new) for single characters
ReplaceChar(s, old, new) == [i \in 1..Len(s) |-> IF s[i] = old THEN new ELSE s[i]]

\* urllib.parse.quote_plus(s, safe): blanks become "+"
quote_plus(s, safe) ==
    IF \E i \in 1..Len(s) : s[i] = 32
    THEN ReplaceChar(quote(s, safe \cup {32}), 32, 43)
    ELSE quote(s, safe)

\* a params entry: key, value, and whether the value is an int (urlencode applies str())
Param(k, v) == [k |-> k, v |-> v, isint |-> FALSE]
IntParam(k, n) == [k |-> k, v |-> n, isint |-> TRUE]

RECURSIVE UrlencodeFrom(_, _, _)
UrlencodeFrom(params, i, safe) ==
    IF i > Len(params) THEN <<>>
    ELSE LET p == params[i]
             v == IF p.isint THEN IntToStr(p.v) ELSE p.v
         IN  (IF i > 1 THEN <<38>> ELSE <<>>)
             \o quote_plus(p.k, safe) \o <<61>> \o quote_plus(v, safe)
             \o UrlencodeFrom(params, i + 1, safe)

\* urllib.parse.urlencode(params, safe=...): "k=v" joined by "&", in insertion order
urlencode(params, safe) == UrlencodeFrom(params, 1, safe)

----------------------------------------------------------------------------
\* str.strip(): the characters str.isspace() accepts
Whitespace ==
    (9..13) \cup (28..32) \cup {133, 160, 5760} \cup (8192..8202)
    \cup {8232, 8233, 8239, 8287, 12288}

RECURSIVE LStripIndex(_, _)
LStripIndex(s, i) ==
    IF i <= Len(s) /\ s[i] \in Whitespace THEN LStripIndex(s, i + 1) ELSE i

RECURSIVE RStripIndex(_, _)
RStripIndex(s, j) ==
    IF j >= 1 /\ s[j] \in Whitespace THEN RStripIndex(s, j - 1) ELSE j

strip(s) ==
    LET i == LStripIndex(s, 1)
        j == RStripIndex(s, Len(s))
    IN  IF i > j THEN <<>> ELSE SubSeq(s, i, j)

\* " ".join(parts)
RECURSIVE JoinFrom(_, _)
JoinFrom(parts, i) ==
    IF i > Len(parts) THEN <<>>
    ELSE (IF i > 1 THEN <<32>> ELSE <<>>) \o parts[i] \o JoinFrom(parts, i + 1)

SpaceJoin(parts) == JoinFrom(parts, 1)

\* [k for k in xs if k]
RECURSIVE TruthyOnly(_)
TruthyOnly(xs) ==
    IF xs = <<>> THEN <<>>
    ELSE (IF Truthy(Head(xs)) THEN <<Head(xs)>> ELSE <<>>) \o TruthyOnly(Tail(xs))

\* mutant of SearchKeywords: the colour name is put before the item name
SearchKeywords_ColorFirst(item_kr, color_kr, style) ==
    strip(SpaceJoin(TruthyOnly(<<color_kr, item_kr, style>>)))

\* search_keywords of generate_musinsa_link
SearchKeywords(item_kr, color_kr, style) ==
    strip(SpaceJoin(TruthyOnly(<<item_kr, color_kr, style>>)))

\* mutant of GenderParams: the gf parameter is forgotten
GenderParams_NoGf(gender_code) ==
    IF Truthy(gender_code) THEN <<Param(p_gender, gender_code)>> ELSE <<>>

\* the `if gender_code:` block
GenderParams(gender_code) ==
    IF Truthy(gender_code)
    THEN <<Param(p_gender, gender_code), Param(p_gf, gender_code)>> ELSE <<>>

\* the `if price_param:` block
PriceParams(pr) ==
    IF Truthy(pr.price_param)
    THEN <<Param(p_price, pr.price_param), IntParam(p_minPrice, pr.final_min),
           IntParam(p_maxPrice, pr.final_max)>>
    ELSE <<>>

\* mutant of ColorParams: the parameter is written even when there is no code
ColorParams_Always(color_filter_codes) == <<Param(p_color, color_filter_codes)>>

\* the `if color_filter_codes:` block
ColorParams(color_filter_codes) ==
    IF Truthy(color_filter_codes) THEN <<Param(p_color, color_filter_codes)>> ELSE <<>>

\* the `if category_code:` block
CategoryParams(category_code) ==
    IF Truthy(category_code) THEN <<Param(p_category, category_code)>> ELSE <<>>

\* the `if search_keywords:` block
KeywordParams(search_keywords) ==
    IF Truthy(search_keywords) THEN <<Param(p_keyword, search_keywords)>> ELSE <<>>

\* filter_details: the keys are the ASCII tags of the Korean labels
FilterDetails(gender_code, pr, price, color_filter_codes, category_code, search_keywords) ==
    LET all == [gender_gf |-> gender_code,
                price_category |-> price,
                price_min_max |-> IntToStr(pr.final_min) \o <<126>> \o IntToStr(pr.final_max),
                color |-> color_filter_codes,
                category |-> category_code,
                keyword |-> search_keywords]
        present == {k \in DOMAIN all :
                      CASE k = "gender_gf" -> Truthy(gender_code)
                        [] k \in {"price_category", "price_min_max"} -> Truthy(pr.price_param)
                        [] k = "color" -> Truthy(color_filter_codes)
                        [] k = "category" -> Truthy(category_code)
                        [] OTHER -> Truthy(search_keywords)}
    IN  [k \in present |-> all[k]]

\* generate_musinsa_link(item_type, item_name, gender, style, color, price)
generate_musinsa_link(item_type, item_name, gender, style, color, price) ==
    LET item_kr == DictGet(ITEM_KR, item_name, item_name)
        gender_code == DictGet(GENDER_CODE, gender, EmptyStr)
        color_kr == DictGet(COLOR_KR, color, color)
        color_filter_codes == DictGet(MUSINSA_COLOR_CODES, color, EmptyStr)
        category_code == DictGet(MUSINSA_CATEGORY_CODES, item_type, EmptyStr)
        pr == get_price_min_max(price)
        search_keywords == SearchKeywords(item_kr, color_kr, style)
        params == GenderParams(gender_code) \o PriceParams(pr)
                  \o ColorParams(color_filter_codes) \o CategoryParams(category_code)
                  \o KeywordParams(search_keywords)
    IN  [full_url |-> base_url \o <<63>> \o urlencode(params, {126}),
         search_keywords |-> search_keywords,
         price_param |-> pr.price_param,
         filter_details |-> FilterDetails(gender_code, pr, price, color_filter_codes,
                                          category_code, search_keywords)]

----------------------------------------------------------------------------
\* Python values a function may return: a dict (keys to str or None), None, a list
PyDict(d) == [t |-> "dict", v |-> d]
PyNone == [t |-> "None", v |-> <<>>]
PyList == [t |-> "list", v |-> <<>>]

\* the outcome of a call: a returned value, or an exception that escaped
Returned(v) == [exc |-> "none", val |-> v]
Raised(e) == [exc |-> e, val |-> <<>>]

----------------------------------------------------------------------------
\* json.loads, for the JSON texts drawn here: an object whose members are strings
\* or null, the literal null, the empty array. A string holds no escape sequence.

JsonWs == {32, 9, 10, 13}

\* the first index >= i of s that holds no JSON whitespace, Len(s) + 1 when none does
SkipWs(s, i) ==
    IF \E j \in i..Len(s) : s[j] \notin JsonWs
    THEN CHOOSE j \in i..Len(s) : s[j] \notin JsonWs /\ \A k \in i..(j - 1) : s[k] \in JsonWs
    ELSE Len(s) + 1

\* s holds the text t at index i
LitAt(s, i, t) == i + Len(t) - 1 <= Len(s) /\ SubSeq(s, i, i + Len(t) - 1) = t

JsonFail == [ok |-> FALSE, val |-> <<>>, next |-> 0]

\* a JSON string starting at the quote s[i]
JsonString(s, i) ==
    IF i > Len(s) \/ s[i] /= 34 \/ ~(\E j \in (i + 1)..Len(s) : s[j] = 34) THEN JsonFail
    ELSE LET j == CHOOSE j \in (i + 1)..Len(s) :
                      s[j] = 34 /\ \A k \in (i + 1)..(j - 1) : s[k] /= 34
         IN  IF \E k \in (i + 1)..(j - 1) : s[k] = 92 \/ s[k] < 32 THEN JsonFail
             ELSE [ok |-> TRUE, val |-> SubSeq(s, i + 1, j - 1), next |-> j + 1]

\* a member value: a string or null
JsonMemberValue(s, i) ==
    IF LitAt(s, i, <<110, 117, 108, 108>>) THEN [ok |-> TRUE, val |-> None, next |-> i + 4]
    ELSE JsonString(s, i)

\* the members of an object from index i on, after "{" or ","; acc holds those read
RECURSIVE JsonMembers(_, _, _)
JsonMembers(s, i, acc) ==
    LET k == JsonString(s, SkipWs(s, i))
        c == SkipWs(s, k.next)
        v == JsonMemberValue(s, SkipWs(s, c + 1))
        e == SkipWs(s, v.next)
        got == (k.val :> v.val) @@ acc
    IN  IF ~k.ok \/ c > Len(s) \/ s[c] /= 58 \/ ~v.ok \/ e > Len(s) THEN JsonFail
        ELSE IF s[e] = 125 THEN [ok |-> TRUE, val |-> got, next |-> e + 1]
        ELSE IF s[e] = 44 THEN JsonMembers(s, e + 1, got)
        ELSE JsonFail

\* the value starting at index i
JsonValue(s, i) ==
    IF i > Len(s) THEN JsonFail
    ELSE IF LitAt(s, i, <<110, 117, 108, 108>>) THEN [ok |-> TRUE, val |-> PyNone, next |-> i + 4]
    ELSE IF s[i] = 91
         THEN LET c == SkipWs(s, i + 1)
              IN  IF c <= Len(s) /\ s[c] = 93
                  THEN [ok |-> TRUE, val |-> PyList, next |-> c + 1] ELSE JsonFail
    ELSE IF s[i] = 123
         THEN LET c == SkipWs(s, i + 1)
              IN  IF c <= Len(s) /\ s[c] = 125
                  THEN [ok |-> TRUE, val |-> PyDict(<<>>), next |-> c + 1]
                  ELSE LET m == JsonMembers(s, i + 1, <<>>)
                       IN  IF m.ok THEN [ok |-> TRUE, val |-> PyDict(m.val), next |-> m.next]
                           ELSE JsonFail
    ELSE JsonFail

\* json.loads(text): the value, or an exception (also for a text that is None)
json_loads(text) ==
    IF text = None THEN Raised("TypeError")
    ELSE LET r == JsonValue(text, SkipWs(text, 1))
         IN  IF r.ok /\ SkipWs(text, r.next) = Len(text) + 1 THEN Returned(r.val)
             ELSE Raised("JSONDecodeError")

----------------------------------------------------------------------------
\* parse_user_text_gemini

\* the record returned when there is no client
FallbackAttributes ==
    PyDict((p_gender :> s_female) @@ (p_color :> s_black)
           @@ (p_style :> s_casual) @@ (p_price :> s_under_50))

\* mutant of ParseTry: a text that does not decode gives an empty record
ParseTry_Lenient(service) ==
    IF service.outcome = "throws" THEN Raised("APIError")
    ELSE LET r == json_loads(service.text)
         IN  IF r.exc = "none" THEN r ELSE Returned(PyDict(<<>>))

\* the try block: generate_content, then json.loads(response.text)
ParseTry(service) ==
    IF service.outcome = "throws" THEN Raised("APIError") ELSE json_loads(service.text)

\* parse_user_text_gemini(user_text) with the client cl and the service answering as
\* `service`: the value returned and the number of generate_content calls issued
parse_user_text_gemini(cl, user_text, service) ==
    IF ~cl THEN [val |-> FallbackAttributes, n |-> 0]
    ELSE LET r == ParseTry(service)
         IN  [val |-> IF r.exc = "none" THEN r.val ELSE PyNone, n |-> 1]

----------------------------------------------------------------------------
\* The trained pipeline of train_model.py: OneHotEncoder(handle_unknown="ignore")
\* followed by a RandomForestClassifier

Columns == <<"gender", "style", "color", "price">>

Vocab ==
    [gender |-> GENDER_VOCAB, style |-> STYLE_VOCAB, color |-> COLOR_VOCAB, price |-> PRICE_VOCAB]

Classes == (s_top :> TOP_CLASSES) @@ (s_bottom :> BOTTOM_CLASSES) @@ (s_outer :> OUTER_CLASSES)

\* mutant of OneHot: an unknown category raises (handle_unknown="error")
OneHot_Error(cats, v) ==
    IF \E i \in 1..Len(cats) : cats[i] = v
    THEN Returned([i \in 1..Len(cats) |-> IF cats[i] = v THEN 1 ELSE 0])
    ELSE Raised("ValueError")

\* the encoding of one column: a 1 at the value's category, and all zeros for a
\* value that is no category (handle_unknown="ignore")
OneHot(cats, v) == Returned([i \in 1..Len(cats) |-> IF cats[i] = v THEN 1 ELSE 0])

\* the forest is opaque: some function, fixed by the fitted artifact (its seed),
\* from the encoded row to the labels it was fitted on
RECURSIVE WeightOf(_, _)
WeightOf(x, i) == IF i > Len(x) THEN 0 ELSE i * x[i] + WeightOf(x, i + 1)

Classify(model, enc) ==
    LET w == WeightOf(enc.gender, 1) + 3 * WeightOf(enc.style, 1)
             + 5 * WeightOf(enc.color, 1) + 7 * WeightOf(enc.price, 1)
    IN  model.classes[((model.seed + w) % Len(model.classes)) + 1]

\* model.predict(input_df)[0]: an artifact that does not run raises
ModelPredict(model, row) ==
    LET e == [c \in {"gender", "style", "color", "price"} |-> OneHot(Vocab[c], row[c])]
    IN  IF model.state /= "fitted" THEN Raised("Exception")
        ELSE IF \E c \in DOMAIN e : e[c].exc /= "none" THEN Raised("ValueError")
        ELSE Returned(Classify(model, [c \in DOMAIN e |-> e[c].val]))

\* str.lower() (ASCII letters; no drawn value holds another cased letter)
Lower(s) == [i \in 1..Len(s) |-> IF s[i] \in 65..90 THEN s[i] + 32 ELSE s[i]]

\* mutant of PredictTry: the except clause is missing
PredictTry_NoExcept(model, row) == ModelPredict(model, row)

\* the try block of predict_clothing_item and its except clause
PredictTry(model, row) ==
    LET r == ModelPredict(model, row)
    IN  IF r.exc /= "none" THEN Returned(PredictFailed) ELSE r

\* predict_clothing_item(gender, style, color, price, item_type, models): the
\* outcome and the number of model.predict calls made
predict_clothing_item(gender, style, color, price, item_type, ms) ==
    IF item_type \notin DOMAIN ms THEN [r |-> Returned(ModelMissing), n |-> 0]
    ELSE IF None \in {gender, style, color, price}
         THEN [r |-> Raised("AttributeError"), n |-> 0]
    ELSE [r |-> PredictTry(ms[item_type],
                           [gender |-> Lower(gender), style |-> Lower(style),
                            color |-> Lower(color), price |-> Lower(price)]),
          n |-> 1]

----------------------------------------------------------------------------
\* refine_search_query_gemini

\* the try block: generate_content, then response.text.strip().replace('\n', ' ')
RefineTry(service) ==
    IF service.outcome = "throws" THEN Raised("APIError")
    ELSE IF service.text = None THEN Raised("AttributeError")
    ELSE Returned(ReplaceChar(strip(service.text), 10, 32))

\* mutant of refine_search_query_gemini: the response is returned as it came
refine_search_query_gemini_Raw(cl, product_name, service) ==
    IF ~cl THEN [r |-> Returned(product_name), n |-> 0]
    ELSE IF service.outcome = "throws" \/ service.text = None
         THEN [r |-> Returned(product_name), n |-> 1]
    ELSE [r |-> Returned(service.text), n |-> 1]

\* refine_search_query_gemini(product_name) with the client cl and the service
\* answering as `service`: the outcome and the number of generate_content calls
refine_search_query_gemini(cl, product_name, service) ==
    IF ~cl THEN [r |-> Returned(product_name), n |-> 0]
    ELSE LET t == RefineTry(service)
         IN  [r |-> IF t.exc /= "none" THEN Returned(product_name) ELSE t, n |-> 1]

----------------------------------------------------------------------------
\* Inputs of the function-level specification

TierNames == {s_under_50, s_t50_100, s_t100_200, s_t200_300, s_over_300}

\* price tiers handed to the resolver: the five tiers, an unknown one, "" and None
PriceInputs == TierNames \cup {s_cheap, EmptyStr, None}

CategoryInputs == {s_top, s_outer, s_shoes, EmptyStr}
ItemInputs == {s_hoodie, s_denim, s_sneakers, EmptyStr}
GenderInputs == {s_male, s_female, s_unisex, None}
StyleInputs == {s_casual, s_street_padded, s_blank, EmptyStr}
ColorInputs == {s_black, s_red, s_burgundy, EmptyStr}
LinkPriceInputs == {s_under_50, s_t50_100, s_over_300, s_cheap, None}

----------------------------------------------------------------------------
UserTexts == {text_request, EmptyStr}

\* what the LLM service does with the extraction request: it throws, or it answers
\* with a text (None: the response carries no text)
ExtractionTexts ==
    {resp_full, resp_unseen_color, resp_upper, resp_partial, resp_null_field,
     resp_truncated, resp_prose, resp_null, resp_list, resp_empty, None}

\* the call does not reach the service
NoService == [outcome |-> "unused", text |-> None]

Throws == [outcome |-> "throws", text |-> None]
Answers(t) == [outcome |-> "text", text |-> t]

ExtractionServices == {Throws} \cup {Answers(t) : t \in ExtractionTexts}

RefineTexts == {ref_clean, ref_padded, ref_crlf, ref_blank, ref_empty, None}
RefineServices == {Throws} \cup {Answers(t) : t \in RefineTexts}
ProductNames == {name_set, name_padded, s_hoodie}

\* the fitted artifacts differ in the function the forest computes: seeds 0..MaxSeed
MaxSeed == 1

Categories == {s_top, s_bottom, s_outer}

\* what load_all_models_and_data found for a category: no file (or a file that does
\* not load), a fitted pipeline, or an artifact whose predict raises
ArtifactStates == {"missing", "fitted", "broken"}

Artifact(c, st, seed) == [state |-> st, classes |-> Classes[c], seed |-> seed]

\* RECOMMENDATION_MODELS for the per-category findings st
ModelDictOf(st, seed) ==
    [c \in {c \in Categories : st[c] /= "missing"} |-> Artifact(c, st[c], seed)]

ModelDicts == {ModelDictOf(st, sd) : st \in [Categories -> ArtifactStates], sd \in 0..MaxSeed}

PredictGenders == {s_female, s_Female, s_unisex, None}
PredictStyles == {s_casual, EmptyStr}
PredictColors == {s_black, s_burgundy}
PredictPrices == {s_t50_100, s_cheap}
PredictCategories == {s_top, s_bottom, s_shoes}

\* The calls the function-level specification draws: function, arguments, and the
\* globals and collaborators the function reads
Setup(fn, a, cl, ms, sv) == [fn |-> fn, a |-> a, client |-> cl, models |-> ms, env |-> sv]

PriceCalls ==
    {Setup("get_price_min_max", [price_key |-> k], cl, <<>>, NoService) :
        k \in PriceInputs, cl \in BOOLEAN}

LinkCalls ==
    {Setup("generate_musinsa_link",
           [item_type |-> t, item_name |-> n, gender |-> g,
            style |-> s, color |-> c, price |-> p], TRUE, <<>>, NoService) :
        t \in CategoryInputs, n \in ItemInputs, g \in GenderInputs,
        s \in StyleInputs, c \in ColorInputs, p \in LinkPriceInputs}

ParseCalls ==
    {Setup("parse_user_text_gemini", [user_text |-> u], cl, <<>>, sv) :
        u \in UserTexts, cl \in BOOLEAN, sv \in ExtractionServices}

PredictCalls ==
    {Setup("predict_clothing_item",
           [gender |-> g, style |-> s, color |-> c, price |-> p, item_type |-> t],
           TRUE, ms, NoService) :
        g \in PredictGenders, s \in PredictStyles, c \in PredictColors,
        p \in PredictPrices, t \in PredictCategories, ms \in ModelDicts}

RefineCalls ==
    {Setup("refine_search_query_gemini", [product_name |-> n], cl, <<>>, sv) :
        n \in ProductNames, cl \in BOOLEAN, sv \in RefineServices}

\* State after the module body of app.py ran (client and models are set), with one
\* call drawn and not yet made.
Init ==
    /\ \E call \in PriceCalls \cup LinkCalls \cup ParseCalls \cup PredictCalls \cup RefineCalls :
          /\ op = call.fn
          /\ args = call.a
          /\ client = call.client
          /\ models = call.models
          /\ env = call.env
    /\ pc = "ready"
    /\ ret = <<>>
    /\ calls = 0
    /\ session = <<>>
    /\ widgets = <<>>
    /\ shown = <<>>
    /\ steps = <<>>

\* the call of get_price_min_max
CallGetPriceMinMax ==
    /\ pc = "ready"
    /\ op = "get_price_min_max"
    /\ ret' = get_price_min_max(args.price_key)
    /\ pc' = "done"
    /\ UNCHANGED <<client, models, op, args, env, calls, appvars>>

\* the call of generate_musinsa_link
CallGenerateMusinsaLink ==
    /\ pc = "ready"
    /\ op = "generate_musinsa_link"
    /\ ret' = generate_musinsa_link(args.item_type, args.item_name, args.gender,
                                    args.style, args.color, args.price)
    /\ pc' = "done"
    /\ UNCHANGED <<client, models, op, args, env, calls, appvars>>

\* the call of parse_user_text_gemini
CallParseUserText ==
    /\ pc = "ready"
    /\ op = "parse_user_text_gemini"
    /\ LET r == parse_user_text_gemini(client, args.user_text, env)
       IN  ret' = r.val /\ calls' = r.n
    /\ pc' = "done"
    /\ UNCHANGED <<client, models, op, args, env, appvars>>

\* the call of predict_clothing_item
CallPredictClothingItem ==
    /\ pc = "ready"
    /\ op = "predict_clothing_item"
    /\ LET r == predict_clothing_item(args.gender, args.style, args.color, args.price,
                                      args.item_type, models)
       IN  ret' = r.r /\ calls' = r.n
    /\ pc' = "done"
    /\ UNCHANGED <<client, models, op, args, env, appvars>>

\* the call of refine_search_query_gemini
CallRefineSearchQuery ==
    /\ pc = "ready"
    /\ op = "refine_search_query_gemini"
    /\ LET r == refine_search_query_gemini(client, args.product_name, env)
       IN  ret' = r.r /\ calls' = r.n
    /\ pc' = "done"
    /\ UNCHANGED <<client, models, op, args, env, appvars>>

Next ==
    \/ CallGetPriceMinMax
    \/ CallGenerateMusinsaLink
    \/ CallParseUserText
    \/ CallPredictClothingItem
    \/ CallRefineSearchQuery

Spec == Init /\ [][Next]_vars

----------------------------------------------------------------------------
\* The Streamlit script (section 9 of app.py): every event in the browser runs the
\* script once, top to bottom, against st.session_state and the widget values.

\* generate_naver_shopping_link(search_keywords)
generate_naver_shopping_link(search_keywords) ==
    [full_url |-> NAVER_SHOPPING_BASE_URL \o naver_query_head
                  \o quote_plus(search_keywords, {}) \o naver_query_tail,
     query |-> search_keywords]

\* `key in st.session_state`, and st.session_state[key] = value
Has(s, k) == k \in DOMAIN s
Put(s, k, v) == (k :> v) @@ s

\* 'analysis_done' in st.session_state and st.session_state['analysis_done']
AnalysisDone(s) == Has(s, "analysis_done") /\ s["analysis_done"]

\* a keyed widget returns the value the browser holds for it, and its default when
\* it was not rendered by the run before
WidgetValue(w, key, default) == IF Has(w, key) THEN w[key] ELSE default

\* model_keys = list(RECOMMENDATION_MODELS.keys()), in the order of MODEL_PATHS
InModels(ms, c) == c \in DOMAIN ms
ModelKeys(ms) ==
    (IF InModels(ms, s_top) THEN <<s_top>> ELSE <<>>)
    \o (IF InModels(ms, s_bottom) THEN <<s_bottom>> ELSE <<>>)
    \o (IF InModels(ms, s_outer) THEN <<s_outer>> ELSE <<>>)

\* mutant of Sidebar: a new request text is stored without resetting analysis_done
Sidebar_KeepDone(s0, w, ms) ==
    LET s1 == IF Has(s0, "user_input") THEN s0 ELSE Put(s0, "user_input", text_request)
        s2 == IF Has(s1, "item_type_select") THEN s1 ELSE Put(s1, "item_type_select", s_top)
        user_text == WidgetValue(w, "user_input_widget", s2["user_input"])
        s3 == IF user_text /= s2["user_input"] THEN Put(s2, "user_input", user_text) ELSE s2
        keys == ModelKeys(ms)
        selected ==
            IF keys = <<>> THEN None
            ELSE WidgetValue(w, "item_type_select_widget",
                             IF InModels(ms, s3["item_type_select"])
                             THEN s3["item_type_select"] ELSE keys[1])
        s4 == IF selected /= s3["item_type_select"]
              THEN Put(Put(s3, "item_type_select", selected), "analysis_done", FALSE)
              ELSE s3
    IN  [session |-> s4, user_text |-> user_text, selected |-> selected]

\* the sidebar: session defaults, the request text and the category select box,
\* each synchronised into st.session_state
Sidebar(s0, w, ms) ==
    LET s1 == IF Has(s0, "user_input") THEN s0 ELSE Put(s0, "user_input", text_request)
        s2 == IF Has(s1, "item_type_select") THEN s1 ELSE Put(s1, "item_type_select", s_top)
        user_text == WidgetValue(w, "user_input_widget", s2["user_input"])
        s3 == IF user_text /= s2["user_input"]
              THEN Put(Put(s2, "user_input", user_text), "analysis_done", FALSE)
              ELSE s2
        keys == ModelKeys(ms)
        selected ==
            IF keys = <<>> THEN None
            ELSE WidgetValue(w, "item_type_select_widget",
                             IF InModels(ms, s3["item_type_select"])
                             THEN s3["item_type_select"] ELSE keys[1])
        s4 == IF selected /= s3["item_type_select"]
              THEN Put(Put(s3, "item_type_select", selected), "analysis_done", FALSE)
              ELSE s3
    IN  [session |-> s4, user_text |-> user_text, selected |-> selected]

\* mutant of PredictionRejected: only the "model missing" sentinel is refused
PredictionRejected_MissingOnly(r) == r.exc /= "none" \/ r.val = ModelMissing

\* step 2 of the handler fails: predict_clothing_item raised, or returned a sentinel
PredictionRejected(r) == r.exc /= "none" \/ r.val \in {PredictFailed, ModelMissing}

\* mutant of BuildAndStore: the search keywords are not stored
BuildAndStore_NoKeywords(s, extracted_json, final_item, link, n) ==
    [session |->
        Put(Put(Put(Put(Put(s, "analysis_done", TRUE),
                            "final_item", final_item),
                        "extracted_json", extracted_json),
                    "musinsa_url", link.full_url),
                "filter_details", link.filter_details),
     outcome |-> "ok", steps |-> <<"extract", "predict", "link">>, calls |-> n]

\* step 3 of the handler, and the storing of the results of the three steps
BuildAndStore(s, extracted_json, final_item, link, n) ==
    [session |->
        Put(Put(Put(Put(Put(Put(s, "analysis_done", TRUE),
                                "final_item", final_item),
                            "extracted_json", extracted_json),
                        "musinsa_url", link.full_url),
                    "filter_details", link.filter_details),
                "search_keywords", link.search_keywords),
     outcome |-> "ok", steps |-> <<"extract", "predict", "link">>, calls |-> n]

\* step 2 of the handler, given what predict_clothing_item did (pr): a rejected
\* prediction ends the run (st.stop), another one goes on to step 3
AfterPrediction(s, extracted_json, a, pr, n) ==
    IF PredictionRejected(pr)
    THEN [session |-> Put(s, "analysis_done", FALSE), outcome |-> "predict_failed",
          steps |-> <<"extract", "predict">>, calls |-> n]
    ELSE BuildAndStore(s, extracted_json, pr.val,
                       generate_musinsa_link(s["item_type_select"], pr.val, a.gender,
                                             a.style, a.color, a.price), n)

\* extracted_json.get(field, '') for the four fields
Attributes(d) ==
    [gender |-> DictGet(d, p_gender, EmptyStr), style |-> DictGet(d, p_style, EmptyStr),
     color |-> DictGet(d, p_color, EmptyStr), price |-> DictGet(d, p_price, EmptyStr)]

\* the call of predict_clothing_item in step 2
Predict(a, item_type, ms) ==
    predict_clothing_item(a.gender, a.style, a.color, a.price, item_type, ms).r

\* step 1 of the handler, given what parse_user_text_gemini returned (json, after n
\* calls): None ends the run (st.stop), and a value without .get ends it with an
\* uncaught exception
AfterExtraction(s, ms, json, n) ==
    IF json.t = "None"
    THEN [session |-> Put(s, "analysis_done", FALSE), outcome |-> "extract_failed",
          steps |-> <<"extract">>, calls |-> n]
    ELSE IF json.t /= "dict"
    THEN [session |-> s, outcome |-> "crash", steps |-> <<"extract">>, calls |-> n]
    ELSE AfterPrediction(s, json, Attributes(json.v),
                         Predict(Attributes(json.v), s["item_type_select"], ms), n)

\* what the extractor returned, with the number of calls it made
Extracted(ex, ms, s) == AfterExtraction(s, ms, ex.val, ex.n)

\* the `if run_button:` block: extraction, prediction, link building, storing.
\* outcome: "ok", or the step that ended the run
Pipeline(s, cl, ms, esv) ==
    Extracted(parse_user_text_gemini(cl, s["user_input"], esv), ms, s)

\* a run in which the recommendation button was not pressed
NotRun(s) == [session |-> s, outcome |-> "none", steps |-> <<>>, calls |-> 0]

\* mutant of Compared: the refined query is computed, no link is made of it
Compared_NoLink(refined) == [naver_url |-> <<>>, calls |-> refined.n]

\* the comparison button's block, given what refine_search_query_gemini returned
Compared(refined) ==
    [naver_url |-> generate_naver_shopping_link(refined.r.val).full_url,
     calls |-> refined.n]

NotCompared == [naver_url |-> <<>>, calls |-> 0]

\* the product name input, synchronised into st.session_state
NameInput(s, w) ==
    LET s1 == IF Has(s, "naver_shopping_input_value") THEN s
              ELSE Put(s, "naver_shopping_input_value", EmptyStr)
        naver_input == WidgetValue(w, "naver_shopping_input_widget",
                                   s1["naver_shopping_input_value"])
    IN  [session |-> IF naver_input /= s1["naver_shopping_input_value"]
                     THEN Put(s1, "naver_shopping_input_value", naver_input) ELSE s1,
         naver_input |-> naver_input]

\* the comparison part of the result section, after the name input ni
ComparisonOf(ni, naver_button, cl, rsv) ==
    [session |-> ni.session, naver_input |-> ni.naver_input,
     warning |-> naver_button /\ ni.session["naver_shopping_input_value"] = EmptyStr,
     compared |-> naver_button /\ ni.session["naver_shopping_input_value"] /= EmptyStr,
     link |-> IF naver_button /\ ni.session["naver_shopping_input_value"] /= EmptyStr
              THEN Compared(refine_search_query_gemini(
                               cl, ni.session["naver_shopping_input_value"], rsv))
              ELSE NotCompared]

Comparison(s, w, naver_button, cl, rsv) == ComparisonOf(NameInput(s, w), naver_button, cl, rsv)

\* the widgets of the sidebar (no select box is drawn without a model)
SidebarWidgets(sb) ==
    IF sb.selected = None
    THEN ("user_input_widget" :> sb.user_text)
    ELSE ("user_input_widget" :> sb.user_text) @@ ("item_type_select_widget" :> sb.selected)

\* a run that ends before the result section, or skips it
WithoutResult(sb, p) ==
    [session |-> p.session,
     widgets |-> SidebarWidgets(sb),
     shown |-> [placeholder |-> ~AnalysisDone(sb.session), outcome |-> p.outcome,
                result |-> FALSE, item |-> <<>>, url |-> <<>>, warning |-> FALSE,
                naver_url |-> <<>>],
     steps |-> p.steps,
     calls |-> p.calls]

\* a run that renders the result section, with its comparison part cmp
WithResult(sb, p, cmp) ==
    [session |-> cmp.session,
     widgets |-> SidebarWidgets(sb) @@ ("naver_shopping_input_widget" :> cmp.naver_input),
     shown |-> [placeholder |-> ~AnalysisDone(sb.session), outcome |-> p.outcome,
                result |-> TRUE, item |-> p.session["final_item"],
                url |-> p.session["musinsa_url"], warning |-> cmp.warning,
                naver_url |-> cmp.link.naver_url],
     steps |-> p.steps \o (IF cmp.compared THEN <<"refine", "naver_link">> ELSE <<>>),
     calls |-> p.calls + cmp.link.calls]

\* the script below the sidebar, after the handler (p)
Rendered(sb, p, w, naver_button, cl, rsv) ==
    IF p.outcome \in {"none", "ok"} /\ AnalysisDone(p.session)
    THEN WithResult(sb, p, Comparison(p.session, w, naver_button, cl, rsv))
    ELSE WithoutResult(sb, p)

\* the script below the sidebar
Body(sb, w, run_button, naver_button, cl, ms, esv, rsv) ==
    Rendered(sb, IF run_button THEN Pipeline(sb.session, cl, ms, esv) ELSE NotRun(sb.session),
             w, naver_button, cl, rsv)

\* one run of the script with the widget values w and the two buttons as given:
\* the session state, the widgets rendered, and what is shown, after the run
ScriptRun(s0, w, run_button, naver_button, cl, ms, esv, rsv) ==
    Body(Sidebar(s0, w, ms), w, run_button, naver_button, cl, ms, esv, rsv)

\* the request texts and product names the user types
AppTexts == {text_request, EmptyStr}
AppProductNames == {name_set, EmptyStr}

\* the deployments: every artifact loaded, the first one missing, none loaded, and
\* one whose predict raises
Found(top, bottom, outer) ==
    [c \in Categories |-> IF c = s_top THEN top ELSE IF c = s_bottom THEN bottom ELSE outer]
AppFindings ==
    {Found("fitted", "fitted", "fitted"), Found("missing", "fitted", "fitted"),
     Found("missing", "missing", "missing"), Found("fitted", "broken", "fitted")}
AppModelDicts == {ModelDictOf(st, sd) : st \in AppFindings, sd \in 0..MaxSeed}

\* the services that can matter to a run: none is reached without a client
ServicesFor(cl, all) == IF cl THEN all ELSE {NoService}

\* Before the first run of a session: the module body set client and models
InitApp ==
    /\ client \in BOOLEAN
    /\ models \in AppModelDicts
    /\ op = "app"
    /\ args = <<>>
    /\ pc = "new"
    /\ env = NoService
    /\ ret = <<>>
    /\ calls = 0
    /\ session = <<>>
    /\ widgets = <<>>
    /\ shown = <<>>
    /\ steps = <<>>

\* the state after the run r, made with the service behaving as sv
After(r, sv) ==
    /\ session' = r.session
    /\ widgets' = r.widgets
    /\ shown' = r.shown
    /\ steps' = r.steps
    /\ calls' = r.calls
    /\ env' = sv
    /\ pc' = "live"
    /\ UNCHANGED <<client, models, op, args, ret>>

\* the first run of a session: the page is opened
PageLoad ==
    /\ pc = "new"
    /\ After(ScriptRun(session, widgets, FALSE, FALSE, client, models, NoService, NoService),
             NoService)

\* the user commits another request text
EditText ==
    /\ pc = "live"
    /\ \E t \in AppTexts :
          /\ t /= widgets["user_input_widget"]
          /\ After(ScriptRun(session, Put(widgets, "user_input_widget", t), FALSE, FALSE,
                             client, models, NoService, NoService), NoService)

\* the user selects another category
SelectCategory ==
    /\ pc = "live"
    /\ Has(widgets, "item_type_select_widget")
    /\ \E c \in DOMAIN models :
          /\ c /= widgets["item_type_select_widget"]
          /\ After(ScriptRun(session, Put(widgets, "item_type_select_widget", c), FALSE,
                             FALSE, client, models, NoService, NoService), NoService)

\* the user presses the recommendation button (disabled when no model is loaded)
PressRun ==
    /\ pc = "live"
    /\ Has(widgets, "item_type_select_widget")
    /\ \E esv \in ServicesFor(client, ExtractionServices) :
          After(ScriptRun(session, widgets, TRUE, FALSE, client, models, esv, NoService), esv)

\* the user commits another product name (the input exists when results are shown)
EditProductName ==
    /\ pc = "live"
    /\ Has(widgets, "naver_shopping_input_widget")
    /\ \E n \in AppProductNames :
          /\ n /= widgets["naver_shopping_input_widget"]
          /\ After(ScriptRun(session, Put(widgets, "naver_shopping_input_widget", n), FALSE,
                             FALSE, client, models, NoService, NoService), NoService)

\* the user presses the comparison button (it exists when results are shown)
PressCompare ==
    /\ pc = "live"
    /\ Has(widgets, "naver_shopping_input_widget")
    /\ \E rsv \in ServicesFor(client /\ widgets["naver_shopping_input_widget"] /= EmptyStr,
                              RefineServices) :
          After(ScriptRun(session, widgets, FALSE, TRUE, client, models, NoService, rsv), rsv)

NextApp ==
    \/ PageLoad
    \/ EditText
    \/ SelectCategory
    \/ PressRun
    \/ EditProductName
    \/ PressCompare

SpecApp == InitApp /\ [][NextApp]_vars

----------------
\* Reading a URL and a range string back (used by the properties only)

\* the k-th smallest element of a finite set of integers
Kth(S, k) == CHOOSE p \in S : Cardinality({q \in S : q < p}) = k - 1

\* the pieces of s between occurrences of the character sep
Split(s, sep) ==
    LET at == {i \in 1..Len(s) : s[i] = sep}
        cut(j) == IF j = 0 THEN 0
                  ELSE IF j > Cardinality(at) THEN Len(s) + 1 ELSE Kth(at, j)
    IN  [j \in 1..(Cardinality(at) + 1) |-> SubSeq(s, cut(j - 1) + 1, cut(j) - 1)]

StartsWith(s, prefix) ==
    Len(s) >= Len(prefix) /\ SubSeq(s, 1, Len(prefix)) = prefix

\* a canonical decimal numeral: digits only, no leading zero
IsDecimal(s) ==
    /\ Len(s) >= 1
    /\ \A i \in 1..Len(s) : s[i] \in 48..57
    /\ Len(s) > 1 => s[1] /= 48

RECURSIVE ParseIntUpTo(_, _)
ParseIntUpTo(s, n) ==
    IF n = 0 THEN 0 ELSE 10 * ParseIntUpTo(s, n - 1) + (s[n] - 48)

ParseInt(s) == ParseIntUpTo(s, Len(s))

HexVal(c) == IF c \in 48..57 THEN c - 48 ELSE IF c \in 65..70 THEN c - 55 ELSE c - 87

\* percent-decoding to bytes: "%XX" is one byte, any other character itself
PercentDecode(s) ==
    LET inside(i) == (i > 1 /\ s[i - 1] = 37) \/ (i > 2 /\ s[i - 2] = 37)
        starts == {i \in 1..Len(s) : s[i] = 37 \/ ~inside(i)}
    IN  [j \in 1..Cardinality(starts) |->
            LET i == Kth(starts, j)
            IN  IF s[i] = 37 /\ i + 2 <= Len(s)
                THEN 16 * HexVal(s[i + 1]) + HexVal(s[i + 2])
                ELSE s[i]]

\* UTF-8 bytes to code points: a byte in 128..191 continues the character before it
Utf8Decode(bs) ==
    LET starts == {i \in 1..Len(bs) : bs[i] \notin 128..191}
    IN  [j \in 1..Cardinality(starts) |->
            LET i == Kth(starts, j)
            IN  IF bs[i] < 128 THEN bs[i]
                ELSE IF bs[i] < 224 THEN (bs[i] - 192) * 64 + (bs[i + 1] - 128)
                ELSE IF bs[i] < 240
                     THEN (bs[i] - 224) * 4096 + (bs[i + 1] - 128) * 64 + (bs[i + 2] - 128)
                ELSE (bs[i] - 240) * 262144 + (bs[i + 1] - 128) * 4096
                     + (bs[i + 2] - 128) * 64 + (bs[i + 3] - 128)]

\* what a server reads from a form-encoded component: "+" is a blank, %XX a UTF-8 byte
Decoded(s) ==
    Utf8Decode(PercentDecode([i \in 1..Len(s) |-> IF s[i] = 43 THEN 32 ELSE s[i]]))

FirstIndex(s, c) ==
    IF \E i \in 1..Len(s) : s[i] = c
    THEN CHOOSE i \in 1..Len(s) : s[i] = c /\ \A j \in 1..(i - 1) : s[j] /= c
    ELSE 0

\* the decoded (name, value) pairs of the query of a URL, in order
QueryPairs(url) ==
    LET q == FirstIndex(url, 63)
        pieces == IF q = 0 \/ q = Len(url) THEN <<>>
                  ELSE Split(SubSeq(url, q + 1, Len(url)), 38)
    IN  [i \in 1..Len(pieces) |->
            LET e == FirstIndex(pieces[i], 61)
            IN  IF e = 0 THEN <<Decoded(pieces[i]), <<>> >>
                ELSE <<Decoded(SubSeq(pieces[i], 1, e - 1)),
                       Decoded(SubSeq(pieces[i], e + 1, Len(pieces[i])))>>]

ParamCount(url, k) ==
    LET ps == QueryPairs(url) IN Cardinality({i \in 1..Len(ps) : ps[i][1] = k})

HasParam(url, k, v) ==
    LET ps == QueryPairs(url) IN \E i \in 1..Len(ps) : ps[i] = <<k, v>>

\* the raw (still encoded) query of a URL holds the text t
Contains(s, t) ==
    \E i \in 1..(Len(s) - Len(t) + 1) : SubSeq(s, i, i + Len(t) - 1) = t

DonePrice == pc = "done" /\ op = "get_price_min_max"
DoneLink == pc = "done" /\ op = "generate_musinsa_link"

\* the table entry the resolver is specified to use for a tier input
TierOf(k) == IF k \in TierNames THEN k ELSE s_under_50

----------------------------------------------------------------------------
\* C1: for each of the five tiers get_price_min_max returns the range string
\* "<min>~<max>" of the tier's table entry, with min < max; for an input that is
\* None, "" or no tier name it returns the triple it returns for "under_50".
C1_RangeString ==
    DonePrice =>
        LET k == args.price_key
            parts == Split(ret.price_param, 126)
        IN  /\ k \in TierNames =>
                /\ Len(parts) = 2
                /\ IsDecimal(parts[1]) /\ IsDecimal(parts[2])
                /\ ParseInt(parts[1]) = PRICE_BOUNDARIES[k][1]
                /\ ParseInt(parts[2]) = PRICE_BOUNDARIES[k][2]
                /\ ParseInt(parts[1]) < ParseInt(parts[2])
            /\ k \notin TierNames => ret = get_price_min_max(s_under_50)

C1_Witness ==
    DonePrice /\ args.price_key = s_cheap /\ ret.price_param = r_0_50000

\* C2: the floor-adjusted minimum is the table minimum when that is > 0 and is 7200
\* exactly when the table minimum is 0; the range string keeps the unadjusted
\* minimum and the maximum is never adjusted; an absent or unknown tier gives
\* "0~50000" with a non-zero adjusted minimum.
C2_FloorRule ==
    DonePrice =>
        LET k == args.price_key
            b == PRICE_BOUNDARIES[TierOf(k)]
            parts == Split(ret.price_param, 126)
        IN  /\ b[1] > 0 => ret.final_min = b[1]
            /\ (ret.final_min = 7200) <=> (b[1] = 0)
            /\ Len(parts) = 2 /\ ParseInt(parts[1]) = b[1] /\ ParseInt(parts[2]) = b[2]
            /\ ret.final_max = b[2]
            /\ k \notin TierNames =>
                  ret.price_param = r_0_50000 /\ ret.final_min /= 0

C2_Witness ==
    DonePrice /\ args.price_key = None /\ ret.final_min = 7200 /\ ret.final_max = 50000

\* the arguments of the end-to-end example
ExampleArgs ==
    [item_type |-> s_top, item_name |-> s_hoodie, gender |-> s_female,
     style |-> s_casual, color |-> s_black, price |-> s_t50_100]

ExampleCommon(range) ==
    /\ ret.price_param = range
    /\ HasParam(ret.full_url, p_price, range)
    /\ HasParam(ret.full_url, p_minPrice, SubSeq(range, 1, 5))
    /\ HasParam(ret.full_url, p_gender, s_F)
    /\ HasParam(ret.full_url, p_gf, s_F)
    /\ HasParam(ret.full_url, p_color, s_BLACK)
    /\ HasParam(ret.full_url, p_keyword, kw_hoodie_black_casual)
    /\ ret.search_keywords = kw_hoodie_black_casual

\* C3 as stated: the example yields the range string 50000~100000.
C3_ExampleAsStated ==
    (DoneLink /\ args = ExampleArgs) => ExampleCommon(r_50000_100000)

\* C3 as amended: for {female, black, casual, 50_100}, category top and item hoodie
\* the range string is 50000~99999, the floor is not applied (minPrice=50000), and
\* the URL has gender=F, gf=F, price=50000~99999, color=BLACK and a keyword that
\* decodes to the Korean hoodie name, the Korean black and "casual".
C3_Example ==
    (DoneLink /\ args = ExampleArgs) =>
        /\ ExampleCommon(r_50000_99999)
        /\ Contains(ret.full_url, p_price \o <<61>> \o r_50000_99999)

C3_Witness ==
    DoneLink /\ args = ExampleArgs /\ HasParam(ret.full_url, p_gf, s_F)

\* adjacent tiers, lower to next
NextTier ==
       (s_under_50 :> s_t50_100)
    @@ (s_t50_100 :> s_t100_200)
    @@ (s_t100_200 :> s_t200_300)
    @@ (s_t200_300 :> s_over_300)

\* the lower bound the resolver's range string gives for a tier
LowerBoundOf(k) == ParseInt(Split(get_price_min_max(k).price_param, 126)[1])

\* C4 as stated: the upper bound of each tier but the top one equals the lower bound
\* of the next tier, and the top tier has no finite upper bound.
C4_HalfOpenAsStated ==
    (DonePrice /\ args.price_key \in TierNames) =>
        IF args.price_key \in DOMAIN NextTier
        THEN ret.final_max = LowerBoundOf(NextTier[args.price_key])
        ELSE ret.final_max \notin Nat

\* C4 as amended: the upper bound of under_50 equals the lower bound of 50_100
\* (50000); the upper bound of 50_100, 100_200 and 200_300 is one less than the lower
\* bound of the next tier (99999, 199999, 299999: closed ranges); the top tier
\* over_300 has the finite upper bound 10000000.
C4_Boundaries ==
    (DonePrice /\ args.price_key \in TierNames) =>
        LET k == args.price_key IN
        IF k \in DOMAIN NextTier
        THEN LowerBoundOf(NextTier[k]) - ret.final_max = (IF k = s_under_50 THEN 0 ELSE 1)
        ELSE ret.final_max = 10000000 /\ Contains(ret.price_param, <<126, 49, 48, 48, 48, 48, 48, 48, 48>>)

C4_Witness ==
    DonePrice /\ args.price_key = s_t50_100 /\ ret.final_max = 99999

NonEmptyStr(x) == x /= None /\ x /= <<>>

\* the name the static table gives, or the value itself when the table has none
Localized(table, x) == IF x \in DOMAIN table THEN table[x] ELSE x

\* the non-empty ones of item name, colour name and style, in that order, joined by
\* single blanks
JoinedKeyword(a) ==
    LET kept == SelectSeq(<<Localized(ITEM_KR, a.item_name), Localized(COLOR_KR, a.color),
                            a.style>>, NonEmptyStr)
    IN  IF Len(kept) = 0 THEN <<>>
        ELSE IF Len(kept) = 1 THEN kept[1]
        ELSE IF Len(kept) = 2 THEN kept[1] \o <<32>> \o kept[2]
        ELSE kept[1] \o <<32>> \o kept[2] \o <<32>> \o kept[3]

\* s without its leading and trailing whitespace
Trimmed(s) ==
    LET solid == {i \in 1..Len(s) : s[i] \notin Whitespace}
    IN  IF solid = {} THEN <<>>
        ELSE SubSeq(s, Kth(solid, 1), Kth(solid, Cardinality(solid)))

\* C5 as stated: every URL starts with the base path and has exactly one keyword
\* parameter, which decodes to the single-blank join of the non-empty ones of item
\* name, colour name and style.
C5_KeywordAsStated ==
    DoneLink =>
        /\ StartsWith(ret.full_url, base_url)
        /\ ParamCount(ret.full_url, p_keyword) = 1
        /\ HasParam(ret.full_url, p_keyword, JoinedKeyword(args))

\* C5 as amended: every URL starts with the base path followed by "?"; the keyword
\* is the single-blank join of the non-empty ones of item name, colour name and
\* style (localized when the table knows them) with leading and trailing whitespace
\* removed; when that keyword is not empty the URL has exactly one keyword parameter,
\* which decodes to it, and when it is empty the URL has no keyword parameter.
C5_Keyword ==
    DoneLink =>
        LET ps == QueryPairs(ret.full_url)
            kw == Trimmed(JoinedKeyword(args))
            n == Cardinality({i \in 1..Len(ps) : ps[i][1] = p_keyword})
        IN  /\ StartsWith(ret.full_url, base_url \o <<63>>)
            /\ ret.search_keywords = kw
            /\ IF kw = <<>> THEN n = 0
               ELSE n = 1 /\ \E i \in 1..Len(ps) : ps[i] = <<p_keyword, kw>>

C5_Witness ==
    /\ DoneLink
    /\ args.item_name = s_sneakers /\ args.color = s_black /\ args.style = s_street_padded
    /\ ParamCount(ret.full_url, p_keyword) = 1

\* the number of parameters named k among the pairs ps
CountIn(ps, k) == Cardinality({i \in 1..Len(ps) : ps[i][1] = k})

\* the filter of one table-driven attribute: written once with the table's code when
\* the table knows the value, not written otherwise
TableFilter(ps, names, table, x) ==
    IF x \in DOMAIN table
    THEN \A k \in names : CountIn(ps, k) = 1 /\ \E i \in 1..Len(ps) : ps[i] = <<k, table[x]>>
    ELSE \A k \in names : CountIn(ps, k) = 0

TableFilters(ps, a) ==
    /\ TableFilter(ps, {p_gender, p_gf}, GENDER_CODE, a.gender)
    /\ TableFilter(ps, {p_color}, MUSINSA_COLOR_CODES, a.color)
    /\ TableFilter(ps, {p_category}, MUSINSA_CATEGORY_CODES, a.item_type)

\* C6 as stated: a gender, colour, category or price tier that is absent or not in
\* its table has its parameters left out, the other filters still being written.
C6_OmitAsStated ==
    DoneLink =>
        LET ps == QueryPairs(ret.full_url) IN
        /\ TableFilters(ps, args)
        /\ args.price \notin TierNames =>
              \A k \in {p_price, p_minPrice, p_maxPrice} : CountIn(ps, k) = 0

\* C6 as amended: generate_musinsa_link returns a URL for every input; a gender,
\* colour or category that is absent or not in its table has its parameters
\* (gender/gf, color, category) left out while the other filters are still written;
\* the price parameters price/minPrice/maxPrice are always written, with the values
\* of the tier, and with those of under_50 (0~50000, 7200, 50000) when the tier is
\* absent or unknown.
C6_Omit ==
    DoneLink =>
        LET ps == QueryPairs(ret.full_url)
            b == PRICE_BOUNDARIES[TierOf(args.price)]
        IN  /\ StartsWith(ret.full_url, base_url \o <<63>>)
            /\ TableFilters(ps, args)
            /\ \A k \in {p_price, p_minPrice, p_maxPrice} : CountIn(ps, k) = 1
            /\ \E i \in 1..Len(ps) :
                  /\ ps[i][1] = p_maxPrice
                  /\ IsDecimal(ps[i][2]) /\ ParseInt(ps[i][2]) = b[2]
            /\ \E i \in 1..Len(ps) :
                  /\ ps[i][1] = p_minPrice
                  /\ IsDecimal(ps[i][2])
                  /\ ParseInt(ps[i][2]) = (IF b[1] = 0 THEN 7200 ELSE b[1])
            /\ args.price \notin TierNames =>
                  \E i \in 1..Len(ps) : ps[i] = <<p_price, r_0_50000>>

C6_Witness ==
    /\ DoneLink
    /\ args.gender = s_unisex /\ args.color = s_burgundy
    /\ args.item_type = s_shoes /\ args.price = s_cheap
    /\ ParamCount(ret.full_url, p_gender) = 0
    /\ ParamCount(ret.full_url, p_price) = 1

DoneParse == pc = "done" /\ op = "parse_user_text_gemini"
DonePredict == pc = "done" /\ op = "predict_clothing_item"
DoneRefine == pc = "done" /\ op = "refine_search_query_gemini"

FourFields == {p_gender, p_color, p_style, p_price}

\* the drawn answers by what they are: a record with the four fields, something that
\* is no JSON (or no text at all)
FullTexts == {resp_full, resp_unseen_color, resp_upper}
UndecodableTexts == {resp_truncated, resp_prose, resp_empty, None}

\* C7 as stated: parse_user_text_gemini returns None when there is no client, when
\* the call throws, and when the text does not decode to a record with the four
\* fields; it never returns a record that misses a field, and never a record when no
\* external call succeeded.
C7_FailureAsStated ==
    DoneParse =>
        /\ ~client => ret.t = "None"
        /\ (client /\ env.outcome = "throws") => ret.t = "None"
        /\ (client /\ env.outcome = "text" /\ env.text \notin FullTexts) => ret.t = "None"
        /\ ret.t = "dict" => FourFields \subseteq DOMAIN ret.v
        /\ ret.t /= "None" => (client /\ env.outcome = "text")

\* C7 as amended: without a client parse_user_text_gemini issues no call and returns
\* the fixed record {female, black, casual, under_50}; with a client it issues one
\* call and returns None exactly when the call throws, the response has no text, the
\* text is no JSON, or the text is the JSON null; any other decoded value is returned
\* unchecked: a record with the four fields, but also a record that misses fields, a
\* record with a null field, or a list.
C7_Failure ==
    DoneParse =>
        /\ ~client =>
              /\ calls = 0
              /\ ret.t = "dict" /\ DOMAIN ret.v = FourFields
              /\ ret.v[p_gender] = s_female /\ ret.v[p_color] = s_black
              /\ ret.v[p_style] = s_casual /\ ret.v[p_price] = s_under_50
        /\ client =>
              /\ calls = 1
              /\ (ret.t = "None") <=>
                    (env.outcome = "throws" \/ env.text \in UndecodableTexts \cup {resp_null})
              /\ (env.outcome = "text" /\ env.text \in FullTexts \cup {resp_null_field}) =>
                    ret.t = "dict" /\ DOMAIN ret.v = FourFields
              /\ (env.outcome = "text" /\ env.text = resp_full) =>
                    ret.v[p_price] = s_t50_100 /\ ret.v[p_gender] = s_female
              /\ (env.outcome = "text" /\ env.text = resp_null_field) => ret.v[p_gender] = None
              /\ (env.outcome = "text" /\ env.text = resp_partial) =>
                    ret.t = "dict" /\ DOMAIN ret.v = {p_gender, p_color}
              /\ (env.outcome = "text" /\ env.text = resp_list) => ret.t = "list"

C7_Witness ==
    DoneParse /\ ~client /\ ret.t = "dict" /\ calls = 0

\* the labels a category's classifier can return
LabelsOf(c) == {Classes[c][i] : i \in 1..Len(Classes[c])}

AllLabels == UNION {LabelsOf(c) : c \in Categories}

Loaded == args.item_type \in DOMAIN models

NoneAttribute == None \in {args.gender, args.style, args.color, args.price}

SentinelsDistinct ==
    /\ ModelMissing /= PredictFailed
    /\ ModelMissing \notin AllLabels
    /\ PredictFailed \notin AllLabels

\* C8 as stated: predict_clothing_item returns the "model missing" sentinel without
\* invoking a classifier when the category has none, the "prediction failed"
\* sentinel whenever inference raises, or the classifier's label; the three are
\* distinguishable; no exception escapes it.
C8_OutcomesAsStated ==
    DonePredict =>
        /\ ret.exc = "none"
        /\ SentinelsDistinct
        /\ ~Loaded => ret.val = ModelMissing /\ calls = 0
        /\ (Loaded /\ models[args.item_type].state = "broken") => ret.val = PredictFailed
        /\ (Loaded /\ models[args.item_type].state = "fitted") =>
              ret.val \in LabelsOf(args.item_type)

\* C8 as amended: predict_clothing_item returns the "model missing" sentinel without
\* invoking a classifier when the category has none; otherwise, when the four
\* attribute values are strings, it invokes the classifier once and returns the
\* "prediction failed" sentinel whenever the inference call raises and the
\* classifier's label otherwise; the three are distinguishable. No exception of the
\* inference call escapes, but an exception raised while the input is prepared (an
\* attribute value that is None has no lower()) escapes to the caller.
C8_Outcomes ==
    DonePredict =>
        /\ SentinelsDistinct
        /\ ~Loaded => ret.exc = "none" /\ ret.val = ModelMissing /\ calls = 0
        /\ (Loaded /\ NoneAttribute) => ret.exc = "AttributeError" /\ calls = 0
        /\ (Loaded /\ ~NoneAttribute) =>
              /\ ret.exc = "none" /\ calls = 1
              /\ models[args.item_type].state = "broken" => ret.val = PredictFailed
              /\ models[args.item_type].state = "fitted" =>
                    ret.val \in LabelsOf(args.item_type)

C8_Witness ==
    /\ DonePredict /\ Loaded /\ ~NoneAttribute
    /\ models[args.item_type].state = "broken"
    /\ ret.val = PredictFailed /\ calls = 1

\* "nike\r air": ref_crlf with its newline replaced by a blank
ref_crlf_refined == <<110, 105, 107, 101, 13, 32, 97, 105, 114>>

\* what the drawn answers are to be refined to
RefinedOf ==
       (ref_clean :> ref_clean) @@ (ref_padded :> ref_clean) @@ (ref_crlf :> ref_crlf_refined)
    @@ (ref_blank :> <<>>) @@ (ref_empty :> <<>>)

----------------------------------------------------------------------------
\* The recommendation request (specification SpecApp)

\* the last run was a press of the recommendation button that reached the predictor
RanExtract == pc = "live" /\ Len(steps) >= 1 /\ steps[1] = "extract"
RanPredict == RanExtract /\ Len(steps) >= 2 /\ steps[2] = "predict"
LinkBuilt == \E i \in 1..Len(steps) : steps[i] = "link"

\* the record the extractor gave that run, and the four values the handler passed on
LastExtracted == parse_user_text_gemini(client, session["user_input"], env).val.v
Passed == [c \in {"gender", "style", "color", "price"} |->
              DictGet(LastExtracted,
                      CASE c = "gender" -> p_gender [] c = "style" -> p_style
                        [] c = "color" -> p_color [] OTHER -> p_price,
                      EmptyStr)]

VocabOf(c) == {Vocab[c][i] : i \in 1..Len(Vocab[c])}

\* every passed value is a string, and one of them, in the casing the predictor
\* gives it, is no category of its column
StringsPassed == \A c \in DOMAIN Passed : Passed[c] /= None
OutOfVocabulary ==
    StringsPassed /\ \E c \in DOMAIN Passed : Lower(Passed[c]) \notin VocabOf(c)

SelectedModel == models[session["item_type_select"]]

\* the encoded row in which a value that is no category leaves its column all zero
ZeroFilled ==
    [c \in DOMAIN Passed |->
        [i \in 1..Len(Vocab[c]) |-> IF Vocab[c][i] = Lower(Passed[c]) THEN 1 ELSE 0]]

\* C9 as the specification states it: a value outside the vocabulary ends the
\* request with 'prediction failed', and no link is built
C9_UnknownAsStated ==
    (RanPredict /\ OutOfVocabulary)
        => /\ shown.outcome = "predict_failed"
           /\ ~AnalysisDone(session)
           /\ ~LinkBuilt

\* C9: a string value outside the trained vocabulary does not fail the prediction:
\* the encoder leaves its column all zero and a fitted classifier answers with a
\* label of the selected category, from which the link is built and stored; the
\* request is aborted with 'prediction failed' only when the classifier's inference
\* raises, and then no link is built
C9_Unknown ==
    (RanPredict /\ OutOfVocabulary)
        => IF SelectedModel.state = "fitted"
           THEN /\ shown.outcome = "ok"
                /\ AnalysisDone(session)
                /\ steps = <<"extract", "predict", "link">>
                /\ session["final_item"] \in LabelsOf(session["item_type_select"])
                /\ session["final_item"] = Classify(SelectedModel, ZeroFilled)
                /\ session["musinsa_url"] =
                       generate_musinsa_link(session["item_type_select"],
                                             session["final_item"], Passed.gender,
                                             Passed.style, Passed.color,
                                             Passed.price).full_url
                /\ shown.url = session["musinsa_url"]
           ELSE /\ shown.outcome = "predict_failed"
                /\ ~AnalysisDone(session)
                /\ ~LinkBuilt

C9_Witness ==
    /\ RanPredict
    /\ client
    /\ env.outcome = "text"
    /\ env.text = resp_unseen_color
    /\ OutOfVocabulary
    /\ SelectedModel.state = "fitted"
    /\ shown.outcome = "ok"
    /\ LinkBuilt

----------------------------------------------------------------------------
\* C11: the extractor is never called with an empty request text: a press of the
\* recommendation button while the stored user input is the empty string is
\* rejected before parse_user_text_gemini is invoked. The handler has no such test,
\* so the property does not hold of the code.
C11_EmptyRejected ==
    RanExtract => session["user_input"] /= EmptyStr

----------------------------------------------------------------------------
\* what the extractor and the predictor did in the last press of the button,
\* computed again from the state the press left
LastParse == parse_user_text_gemini(client, session["user_input"], env)
LastPrediction ==
    predict_clothing_item(Passed.gender, Passed.style, Passed.color, Passed.price,
                          session["item_type_select"], models).r
ExtractionFailed == LastParse.val.t = "None"
PredictionFailed ==
    /\ LastParse.val.t = "dict"
    /\ \/ LastPrediction.exc /= "none"
       \/ LastPrediction.val = PredictFailed
       \/ LastPrediction.val = ModelMissing

\* the state a selection of category c leaves (the state itself when c is selected)
Selecting(c) ==
    IF c = widgets["item_type_select_widget"]
    THEN [session |-> session, widgets |-> widgets]
    ELSE ScriptRun(session, Put(widgets, "item_type_select_widget", c), FALSE, FALSE,
                   client, models, NoService, NoService)

\* a press of the button in the state r, with the service behaving as esv, succeeds
PressSucceeds(r, esv) ==
    ScriptRun(r.session, r.widgets, TRUE, FALSE, client, models, esv, NoService).shown.outcome
        = "ok"

\* the button is enabled, and some later press (of some loaded category, with the
\* service answering in some way) succeeds
RetryOpen ==
    /\ Has(widgets, "item_type_select_widget")
    /\ \E c \in DOMAIN models :
          \E esv \in ServicesFor(client, ExtractionServices) : PressSucceeds(Selecting(c), esv)

\* C12: one press of the recommendation button runs extraction, prediction and link
\* building in this order, with at most one external call by the extractor; when
\* extraction returns None nothing follows it, when prediction raises or yields a
\* sentinel no link is built, in both cases analysis_done is false after the run, and
\* a later press is possible and can succeed
C12_Terminal ==
    RanExtract
        => /\ calls <= 1
           /\ steps \in {<<"extract">>, <<"extract", "predict">>,
                         <<"extract", "predict", "link">>}
           /\ ExtractionFailed
                 => /\ steps = <<"extract">>
                    /\ shown.outcome = "extract_failed"
                    /\ ~AnalysisDone(session)
                    /\ RetryOpen
           /\ PredictionFailed
                 => /\ steps = <<"extract", "predict">>
                    /\ shown.outcome = "predict_failed"
                    /\ ~AnalysisDone(session)
                    /\ RetryOpen

C12_Witness ==
    /\ RanPredict
    /\ PredictionFailed
    /\ LastPrediction.exc = "none"
    /\ LastPrediction.val = PredictFailed
    /\ steps = <<"extract", "predict">>
    /\ Has(session, "musinsa_url")
    /\ ~AnalysisDone(session)

----------------------------------------------------------------------------
\* the comparison input and button exist (they are drawn by the last run)
ComparisonOffered == Has(widgets, "naver_shopping_input_widget")

\* the last run served a comparison request
ComparisonServed == pc = "live" /\ Len(steps) >= 1 /\ steps[1] = "refine"

\* the stored recommendation result
ResultKeys ==
    {"analysis_done", "final_item", "extracted_json", "musinsa_url", "filter_details",
     "search_keywords", "user_input", "item_type_select"}
StoredResult(s) == [k \in ResultKeys \cap DOMAIN s |-> s[k]]

\* the query the refiner owes for the stored product name: the service's answer
\* cleaned, and the name itself when no answer was had
QueryOwed ==
    IF client /\ env.outcome = "text" /\ env.text /= None
    THEN RefinedOf[env.text]
    ELSE session["naver_shopping_input_value"]

p_query == SubSeq(naver_query_head, 2, 6)

\* C13 as the specification states it: a comparison request can be issued in any
\* session state, whether or not a recommendation has completed, and serving it
\* leaves the stored recommendation result unchanged
C13_IndependentAsStated ==
    /\ [](pc = "live" => ComparisonOffered)
    /\ [][ComparisonServed' => StoredResult(session') = StoredResult(session)]_vars

\* C13: the comparison input and button are part of the result section: a comparison
\* request can be issued only in a session state in which a recommendation has
\* completed (analysis_done), and in every such state whose run ended normally; a
\* request with a non-empty product name is then answered with a secondary-site link
\* whose query is the refined product name, and serving it leaves the stored
\* recommendation result unchanged
C13_Comparison ==
    /\ [](pc = "live"
            => /\ ComparisonOffered => AnalysisDone(session) /\ shown.result
               /\ (AnalysisDone(session) /\ shown.outcome /= "crash") => ComparisonOffered)
    /\ [](ComparisonServed
            => /\ session["naver_shopping_input_value"] /= EmptyStr
               /\ AnalysisDone(session)
               /\ StartsWith(shown.naver_url, NAVER_SHOPPING_BASE_URL)
               /\ ParamCount(shown.naver_url, p_query) = 1
               /\ HasParam(shown.naver_url, p_query, QueryOwed))
    /\ [][ComparisonServed' => StoredResult(session') = StoredResult(session)]_vars

C13_Witness ==
    /\ ComparisonServed
    /\ client
    /\ env.outcome = "text"
    /\ env.text = ref_padded
    /\ session["naver_shopping_input_value"] = name_set
    /\ HasParam(shown.naver_url, p_query, ref_clean)
    /\ AnalysisDone(session)

----------------------------------------------------------------------------
\* the request text or the selected category stored in the session changes
InputChanges ==
    \/ session'["user_input"] /= session["user_input"]
    \/ session'["item_type_select"] /= session["item_type_select"]

\* the stored result is new: analysis_done becomes true, or a stored field changes
ResultChanges ==
    AnalysisDone(session')
    /\ (~AnalysisDone(session) \/ StoredResult(session') /= StoredResult(session))

\* the item and the link that the stored attributes give for the selected category
ItemOwed ==
    Predict(Attributes(session["extracted_json"].v), session["item_type_select"], models)
LinkOwed ==
    generate_musinsa_link(session["item_type_select"], session["final_item"],
                          Attributes(session["extracted_json"].v).gender,
                          Attributes(session["extracted_json"].v).style,
                          Attributes(session["extracted_json"].v).color,
                          Attributes(session["extracted_json"].v).price)

\* C14: freshness of the displayed result. Results are rendered only while
\* analysis_done is true, and show the stored item and link; while analysis_done is
\* true the stored item and link are those the stored attributes give for the
\* category now selected; a run that changes the stored text or category leaves
\* analysis_done false and renders no result; and a stored result becomes current
\* only by a button press that extracted the attributes from the text now stored
C14_Fresh ==
    /\ [](pc = "live" /\ shown.result
            => /\ AnalysisDone(session)
               /\ shown.item = session["final_item"]
               /\ shown.url = session["musinsa_url"])
    /\ [](pc = "live" /\ AnalysisDone(session)
            => /\ ItemOwed.exc = "none"
               /\ session["final_item"] = ItemOwed.val
               /\ session["musinsa_url"] = LinkOwed.full_url)
    /\ [][pc = "live" /\ InputChanges => ~AnalysisDone(session') /\ ~shown'.result]_vars
    /\ [][pc = "live" /\ ResultChanges
            => /\ steps' = <<"extract", "predict", "link">>
               /\ shown'.outcome = "ok"
               /\ ~InputChanges]_vars
    /\ [](pc = "live" /\ shown.outcome = "ok" => session["extracted_json"] = LastParse.val)

C14_Witness ==
    /\ pc = "live"
    /\ Has(session, "final_item")
    /\ ~AnalysisDone(session)
    /\ shown.outcome = "none"
    /\ ~shown.result
    /\ session["user_input"] = EmptyStr

----------------------------------------------------------------------------
\* the fields the handler stores with analysis_done
StoredFields == {"final_item", "extracted_json", "musinsa_url", "filter_details",
                 "search_keywords"}

\* C15: in every reachable session state with analysis_done true, final_item,
\* extracted_json, musinsa_url, filter_details and search_keywords are all stored,
\* final_item is neither sentinel (it is a label of the selected category), and
\* musinsa_url, with the keywords and filter details, is the link built from that
\* final_item and the stored attributes
C15_Stored ==
    AnalysisDone(session)
        => /\ StoredFields \subseteq DOMAIN session
           /\ session["final_item"] \notin {PredictFailed, ModelMissing}
           /\ session["final_item"] \in LabelsOf(session["item_type_select"])
           /\ session["extracted_json"].t = "dict"
           /\ session["musinsa_url"] = LinkOwed.full_url
           /\ session["search_keywords"] = LinkOwed.search_keywords
           /\ session["filter_details"] = LinkOwed.filter_details

C15_Witness ==
    /\ AnalysisDone(session)
    /\ StoredFields \subseteq DOMAIN session
    /\ ComparisonServed
    /\ session["extracted_json"] = FallbackAttributes
    /\ ~client

============================================================================
